---- MODULE Spec2Model ----
(***************************************************************************)
(* The chart-image extraction and registry-remapping pipeline of           *)
(* modules/replication/dockerimage-replication/get-list-of-eks-images.py   *)
(* (function main and its nested process_image).                           *)
(*                                                                         *)
(* Python strings are sequences of one-character strings, so that split,   *)
(* rstrip, join, concatenation and the lexicographic order are computed.   *)
(* Python's None is the one-element sequence <<"None">>, which is no       *)
(* string of characters.                                                   *)
(***************************************************************************)
EXTENDS Naturals, Sequences, FiniteSets

VARIABLES
    pc,                   \* position of main: the statement about to run
    error,                \* the exception that ended the run ("" = none)
    additional_images,    \* parser.get_additional_images: ordered name -> image
    docker_mappings,      \* parser.get_docker_mappings: domain -> mirror
    workloads_data,       \* parser.get_workloads: ordered workload declarations
    images_wip,           \* the raw image list
    parsed_charts,        \* workload -> fetched chart values
    custom_chart_values,  \* workload -> [values: override tree]
    image_data,           \* loop variable: the image descriptor being walked
    registry,             \* local of the image loop
    repository,           \* local of the image loop
    tag,                  \* local of the image loop
    sorted_images,        \* sorted(set(images_wip))
    updated_images,       \* the image-mapping list
    replication_result,   \* <<>> or <<content of replication-result.json>>
    updated_images_json   \* <<>> or <<content of updated_images.json>>

vars == <<pc, error, additional_images, docker_mappings, workloads_data,
          images_wip, parsed_charts, custom_chart_values, image_data,
          registry, repository, tag, sorted_images, updated_images,
          replication_result, updated_images_json>>

(***************************************************************************)
(* Bounds of the model.                                                    *)
(***************************************************************************)
MaxAdditional == 2
MaxImages == 2
MaxStrLen == 6

(***************************************************************************)
(* Python values and string operations.                                    *)
(***************************************************************************)
None == <<"None">>

Str(x) == IF x = None THEN <<"N", "o", "n", "e">> ELSE x

Truthy(x) == x # None /\ x # <<>>

Contains(s, c) == \E i \in 1..Len(s) : s[i] = c

RECURSIVE Split(_, _)
Split(s, c) ==
    IF ~Contains(s, c) THEN <<s>>
    ELSE LET i == CHOOSE j \in 1..Len(s) :
                      s[j] = c /\ \A k \in 1..(j - 1) : s[k] # c
         IN <<SubSeq(s, 1, i - 1)>> \o Split(SubSeq(s, i + 1, Len(s)), c)

RECURSIVE RStrip(_, _)
RStrip(s, c) ==
    IF s # <<>> /\ s[Len(s)] = c THEN RStrip(SubSeq(s, 1, Len(s) - 1), c) ELSE s

RECURSIVE Join(_, _)
Join(parts, c) ==
    IF parts = <<>> THEN <<>>
    ELSE IF Len(parts) = 1 THEN parts[1]
    ELSE parts[1] \o <<c>> \o Join(Tail(parts), c)

\* The characters of the model in ascending code-point order.
CodePoints == <<".", "/", ":", "N", "a", "b", "d", "e", "f", "i", "l", "m",
                "n", "o", "p", "r", "s", "t", "u", "v">>

Ord(c) == CHOOSE i \in 1..Len(CodePoints) : CodePoints[i] = c

RECURSIVE StrLess(_, _)
StrLess(s, t) ==
    IF t = <<>> THEN FALSE
    ELSE IF s = <<>> THEN TRUE
    ELSE IF s[1] = t[1] THEN StrLess(Tail(s), Tail(t))
    ELSE Ord(s[1]) < Ord(t[1])

StrLeq(s, t) == s = t \/ StrLess(s, t)

Range(f) == {f[i] : i \in DOMAIN f}

RECURSIVE Sorted(_)
Sorted(S) ==
    IF S = {} THEN <<>>
    ELSE LET m == CHOOSE x \in S : \A y \in S : StrLeq(x, y)
         IN <<m>> \o Sorted(S \ {m})

\* sorted() compares None with a string as soon as both are in the set.
SortRaises(S) == None \in S /\ Cardinality(S) > 1

(***************************************************************************)
(* Literals of the run.                                                    *)
(***************************************************************************)
Prefix == <<"p", "/">>
Latest == <<"l", "a", "t", "e", "s", "t">>
Default == <<"d", "e", "f", "a", "u", "l", "t">>
Mirror == <<"m">>
EmptyDict == [x \in {} |-> <<>>]

(***************************************************************************)
(* process_image: the source an image is pulled from under the mirror      *)
(* table.                                                                  *)
(***************************************************************************)
\* full_image.split(":") on None is an AttributeError.
ProcessImageRaises(full_image, mappings) ==
    DOMAIN mappings # {} /\ full_image = None

process_image(full_image, mappings) ==
    IF DOMAIN mappings = {} THEN full_image
    ELSE LET i_t == Split(full_image, ":")
             image == i_t[1]
             itag == IF Len(i_t) > 1 THEN i_t[2] ELSE Latest
         IN IF Contains(image, ".")
            THEN LET s == Split(RStrip(image, "/"), "/")
                     dns == s[1]
                     reassembled_url == Join(Tail(s), "/")
                 IN IF dns \in DOMAIN mappings
                    THEN mappings[dns] \o <<"/">> \o reassembled_url
                             \o <<":">> \o itag
                    ELSE full_image
            ELSE IF Default \in DOMAIN mappings /\ Truthy(mappings[Default])
                 THEN mappings[Default] \o <<"/">> \o image \o <<":">> \o itag
                 ELSE full_image

MappingEntry(image, mappings) ==
    [src |-> process_image(image, mappings), target |-> Prefix \o Str(image)]

RECURSIVE MapImages(_, _)
MapImages(images, mappings) ==
    IF images = <<>> THEN <<>>
    ELSE <<MappingEntry(Head(images), mappings)>>
             \o MapImages(Tail(images), mappings)

(***************************************************************************)
(* The collaborators of helmparser.parser, which main only calls.          *)
(***************************************************************************)
\* parser.parse_value: the value at the binding's path in the fetched chart
\* values, None when the path does not resolve.
ParseValue(chart, v) ==
    IF v.path \in DOMAIN chart THEN chart[v.path] ELSE None

\* parser.add_branch_to_dict: the tree with the leaf at the binding's path set.
AddBranch(tree, v, value) ==
    [p \in DOMAIN tree \cup {v.path} |-> IF p = v.path THEN value ELSE tree[p]]

(***************************************************************************)
(* The walk of one image descriptor.  A descriptor is the ordered sequence *)
(* of its (k, v) items; loc holds the locals registry, repository, tag and *)
(* the workload's override tree.                                           *)
(***************************************************************************)
RECURSIVE RegistryPass(_, _, _)
RegistryPass(chart, data, loc) ==
    IF data = <<>> THEN loc
    ELSE LET b == Head(data)
             r == ParseValue(chart, b.v)
         IN IF b.k = "registry"
            THEN RegistryPass(chart, Tail(data),
                     [loc EXCEPT !.registry = r,
                                 !.values = IF Truthy(r)
                                            THEN AddBranch(@, b.v, Prefix \o r)
                                            ELSE @])
            ELSE RegistryPass(chart, Tail(data), loc)

RepositoryNeverPrefixed(reg, repo) == repo

RepositoryInChartValues(reg, repo) ==
    IF Truthy(reg) THEN repo ELSE Prefix \o Str(repo)

RECURSIVE RepositoryTagPass(_, _, _)
RepositoryTagPass(chart, data, loc) ==
    IF data = <<>> THEN loc
    ELSE LET b == Head(data)
             r == ParseValue(chart, b.v)
         IN IF b.k = "repository"
            THEN IF b.v.name # None
                 THEN RepositoryTagPass(chart, Tail(data),
                          [loc EXCEPT !.repository = b.v.name])
                 ELSE RepositoryTagPass(chart, Tail(data),
                          [loc EXCEPT !.repository = r,
                                      !.values = AddBranch(@, b.v,
                                          RepositoryInChartValues(loc.registry, r))])
            ELSE IF b.k = "tag"
            THEN RepositoryTagPass(chart, Tail(data),
                     [loc EXCEPT !.tag = r, !.values = AddBranch(@, b.v, r)])
            ELSE RepositoryTagPass(chart, Tail(data), loc)

RECURSIVE RemovePassElse(_, _)
RemovePassElse(data, loc) ==
    IF data = <<>> THEN loc
    ELSE LET b == Head(data)
         IN IF b.k \notin {"registry", "repository", "tag"}
            THEN RemovePassElse(Tail(data),
                     [loc EXCEPT !.values = AddBranch(@, b.v, <<>>)])
            ELSE RemovePassElse(Tail(data), loc)

RECURSIVE RemovePass(_, _)
RemovePass(data, loc) ==
    IF data = <<>> THEN loc
    ELSE LET b == Head(data)
         IN IF b.k = "remove"
            THEN RemovePass(Tail(data),
                     [loc EXCEPT !.values = AddBranch(@, b.v, <<>>)])
            ELSE RemovePass(Tail(data), loc)

\* The locals after the three loops over the descriptor's items.
WalkLocals(chart, data, values) ==
    RemovePass(data,
        RepositoryTagPass(chart, data,
            RegistryPass(chart, data,
                [registry |-> None, repository |-> None, tag |-> None,
                 values |-> values])))

\* image += f":{tag}" on None is a TypeError.
AssembleRaises(loc) ==
    ~Truthy(loc.registry) /\ loc.repository = None /\ Truthy(loc.tag)

AssembleImage(loc) ==
    LET image == IF Truthy(loc.registry)
                 THEN loc.registry \o <<"/">> \o Str(loc.repository)
                 ELSE loc.repository
    IN IF Truthy(loc.tag) THEN image \o <<":">> \o loc.tag ELSE image

(***************************************************************************)
(* The inputs of a run: the catalog and what the chart repository returns. *)
(***************************************************************************)
RegistryValue == <<"r", ".", "i">>
RepositoryValue == <<"a">>
RepositoryName == <<"b">>
TagValue == <<"v">>

Reference(p) == [path |-> p, name |-> None]
Item(key, p) == <<[k |-> key, v |-> Reference(p)]>>
NameItem == <<[k |-> "repository",
               v |-> [path |-> "image.repository", name |-> RepositoryName]]>>

\* The value the chart repository holds at each path a descriptor refers to.
ValueAt(p) ==
    CASE p = "image.registry" -> RegistryValue
      [] p = "image.repository" -> RepositoryValue
      [] OTHER -> TagValue

ChartsOver(paths) == {[p \in S |-> ValueAt(p)] : S \in SUBSET paths}

\* Chart values and image descriptors of the whole-pipeline runs.
PipelineCharts == ChartsOver({"image.repository", "appVersion"})

PipelineDescriptors ==
    {Item("repository", "image.repository") \o t \o r :
        t \in {<<>>, Item("tag", "appVersion")},
        r \in {<<>>, Item("remove", "appVersion")}}

\* Chart values and image descriptors of the runs that walk one workload:
\* every role present or absent, a key that is no role, both item orders.
WalkCharts ==
    ChartsOver({"image.registry", "image.repository", "image.tag", "appVersion"})

WalkDescriptorParts ==
    {<<g, r, t, u>> :
        g \in {<<>>, Item("registry", "image.registry")},
        r \in {<<>>, Item("repository", "image.repository"), NameItem},
        t \in {<<>>, Item("tag", "image.tag"), Item("tag", "appVersion")},
        u \in {<<>>, Item("pullPolicy", "image.pullPolicy")}}

WalkDescriptors ==
    {d[1] \o d[2] \o d[3] \o d[4] : d \in WalkDescriptorParts}
        \cup {d[4] \o d[3] \o d[2] \o d[1] : d \in WalkDescriptorParts}

AdditionalImageValues ==
    {RepositoryValue, RegistryValue \o <<"/">> \o RepositoryValue}

AdditionalName(i) == [j \in 1..i |-> "n"]

\* The additional-images maps: name -> image, in declaration order.
AdditionalMaps ==
    UNION {{[i \in 1..n |-> [name |-> AdditionalName(i), image |-> f[i]]] :
                f \in [1..n -> AdditionalImageValues]} : n \in 0..MaxAdditional}

MirrorTables ==
    {EmptyDict, [d \in {Default} |-> Mirror], [d \in {RegistryValue} |-> Mirror]}

Workload(key, has) == [key |-> key, has_images |-> has]

\* The workload declarations: each key at most once, in either order.
Catalogs ==
    {<<>>}
    \cup {<<Workload(k, h)>> : k \in {"cert_manager", "w"}, h \in BOOLEAN}
    \cup {<<Workload(k[1], h1), Workload(k[2], h2)>> :
             k \in {<<"cert_manager", "w">>, <<"w", "cert_manager">>},
             h1 \in BOOLEAN, h2 \in BOOLEAN}

(***************************************************************************)
(* main, statement by statement.  The "helm" block of a workload's entry   *)
(* (name, repository, version, srcRepository) and the AMI version take no  *)
(* part in the image walk or the mapping list and are left out; a fetched  *)
(* chart is its values tree.                                               *)
(***************************************************************************)
Keys == {workloads_data[i].key : i \in DOMAIN workloads_data}

\* The loops over workloads_data.items() fill one dict entry per iteration.
Fetched == Cardinality(DOMAIN parsed_charts)
Walked == Cardinality(DOMAIN custom_chart_values)

\* The workload the walk loop is at.
workload == workloads_data[Walked].key

NoFiles == replication_result = <<>> /\ updated_images_json = <<>>

InitRun ==
    /\ error = ""
    /\ images_wip = <<>>
    /\ parsed_charts = EmptyDict
    /\ custom_chart_values = EmptyDict
    /\ image_data = <<>>
    /\ registry = None
    /\ repository = None
    /\ tag = None
    /\ sorted_images = <<>>
    /\ updated_images = <<>>
    /\ replication_result = <<>>
    /\ updated_images_json = <<>>

Init ==
    /\ pc = "load"
    /\ additional_images \in AdditionalMaps
    /\ docker_mappings \in MirrorTables
    /\ workloads_data \in Catalogs
    /\ InitRun

InitWalk ==
    /\ pc = "load"
    /\ additional_images = <<>>
    /\ docker_mappings = EmptyDict
    /\ workloads_data \in {<<Workload(k, TRUE)>> : k \in {"cert_manager", "w"}}
    /\ InitRun

Raise(e) ==
    /\ pc' = "failed"
    /\ error' = e

inputs == <<additional_images, docker_mappings, workloads_data>>
locals == <<image_data, registry, repository, tag>>
outputs == <<replication_result, updated_images_json>>

\* images_wip = [] and the loop appending every additional image.
LoadImages ==
    /\ pc = "load"
    /\ images_wip' = [i \in DOMAIN additional_images |-> additional_images[i].image]
    /\ pc' = "sync"
    /\ UNCHANGED <<error, inputs, parsed_charts, custom_chart_values, locals,
                   sorted_images, updated_images, outputs>>

AfterSync == IF workloads_data = <<>> THEN "workloads" ELSE "fetch"

\* if args.update_helm: add and update the repositories, which may fail.
SyncRepos ==
    /\ pc = "sync"
    /\ \E update_helm \in BOOLEAN, synced \in BOOLEAN :
          IF update_helm /\ ~synced
          THEN Raise("CollaboratorError")
          ELSE pc' = AfterSync /\ error' = error
    /\ UNCHANGED <<inputs, images_wip, parsed_charts, custom_chart_values,
                   locals, sorted_images, updated_images, outputs>>

AfterFetch == IF Fetched + 1 = Len(workloads_data) THEN "workloads" ELSE "fetch"

\* One iteration of the fetch loop: helm.show of the chart and its values.
FetchWorkload(charts) ==
    /\ pc = "fetch"
    /\ LET w == workloads_data[Fetched + 1]
       IN \E chart \in charts :
             /\ ~w.has_images => chart = EmptyDict
             /\ parsed_charts' =
                    [x \in DOMAIN parsed_charts \cup {w.key} |->
                        IF x = w.key THEN chart ELSE parsed_charts[x]]
    /\ pc' = AfterFetch
    /\ UNCHANGED <<error, inputs, images_wip, custom_chart_values, locals,
                   sorted_images, updated_images, outputs>>

FetchFailsSwallowed ==
    /\ pc = "fetch"
    /\ workloads_data[Fetched + 1].has_images
    /\ parsed_charts' =
           [x \in DOMAIN parsed_charts \cup {workloads_data[Fetched + 1].key} |->
               IF x \in DOMAIN parsed_charts THEN parsed_charts[x] ELSE EmptyDict]
    /\ pc' = AfterFetch
    /\ error' = "CollaboratorError"
    /\ UNCHANGED <<inputs, images_wip, custom_chart_values, locals,
                   sorted_images, updated_images, outputs>>

\* helm.show raises: nothing catches it.
FetchFails ==
    /\ pc = "fetch"
    /\ workloads_data[Fetched + 1].has_images
    /\ Raise("CollaboratorError")
    /\ UNCHANGED <<inputs, images_wip, parsed_charts, custom_chart_values,
                   locals, sorted_images, updated_images, outputs>>

\* The head of one iteration of the walk loop: the workload's entry with an
\* empty override tree.
StartWorkload ==
    /\ pc = "workloads"
    /\ Walked < Len(workloads_data)
    /\ LET w == workloads_data[Walked + 1]
       IN /\ custom_chart_values' =
                 [x \in DOMAIN custom_chart_values \cup {w.key} |->
                     IF x = w.key THEN [values |-> EmptyDict]
                     ELSE custom_chart_values[x]]
          /\ pc' = IF w.has_images THEN "images" ELSE "workloads"
    /\ UNCHANGED <<error, inputs, images_wip, parsed_charts, locals,
                   sorted_images, updated_images, outputs>>

\* One iteration of the loop over values["images"].items().
WalkImage(descriptors) ==
    /\ pc = "images"
    /\ Len(images_wip) - Len(additional_images) < MaxImages
    /\ \E d \in descriptors :
          LET loc == WalkLocals(parsed_charts[workload], d,
                                custom_chart_values[workload].values)
          IN /\ image_data' = d
             /\ registry' = loc.registry
             /\ repository' = loc.repository
             /\ tag' = loc.tag
             /\ custom_chart_values' =
                    [custom_chart_values EXCEPT ![workload].values = loc.values]
             /\ IF AssembleRaises(loc)
                THEN Raise("TypeError") /\ images_wip' = images_wip
                ELSE /\ images_wip' = Append(images_wip, AssembleImage(loc))
                     /\ pc' = "images"
                     /\ error' = error
    /\ UNCHANGED <<inputs, parsed_charts, sorted_images, updated_images, outputs>>

\* The image loop of the workload is exhausted.
EndWorkload ==
    /\ pc = "images"
    /\ pc' = "workloads"
    /\ UNCHANGED <<error, inputs, images_wip, parsed_charts,
                   custom_chart_values, locals, sorted_images, updated_images,
                   outputs>>

\* sorted_images = sorted(set(images_wip)); updated_images = [].  The locals
\* of the walk are not read again and are reset.
SortImages ==
    /\ pc = "workloads"
    /\ Walked = Len(workloads_data)
    /\ IF SortRaises(Range(images_wip))
       THEN Raise("TypeError") /\ sorted_images' = sorted_images
       ELSE /\ sorted_images' = IF None \in Range(images_wip) THEN <<None>>
                                ELSE Sorted(Range(images_wip))
            /\ pc' = "map_additional"
            /\ error' = error
    /\ image_data' = <<>>
    /\ registry' = None
    /\ repository' = None
    /\ tag' = None
    /\ UNCHANGED <<inputs, images_wip, parsed_charts, custom_chart_values,
                   updated_images, outputs>>

AdditionalValues == [i \in DOMAIN additional_images |-> additional_images[i].image]

\* The loop over additional_images.items().
MapAdditional ==
    /\ pc = "map_additional"
    /\ IF \E i \in DOMAIN additional_images :
              ProcessImageRaises(additional_images[i].image, docker_mappings)
       THEN Raise("AttributeError") /\ updated_images' = updated_images
       ELSE /\ updated_images' = updated_images
                    \o MapImages(AdditionalValues, docker_mappings)
            /\ pc' = "map_wip"
            /\ error' = error
    /\ UNCHANGED <<inputs, images_wip, parsed_charts, custom_chart_values,
                   locals, sorted_images, outputs>>

\* The loop over images_wip.
MapImagesWip ==
    /\ pc = "map_wip"
    /\ IF \E i \in DOMAIN images_wip :
              ProcessImageRaises(images_wip[i], docker_mappings)
       THEN Raise("AttributeError") /\ updated_images' = updated_images
       ELSE /\ updated_images' = updated_images
                    \o MapImages(images_wip, docker_mappings)
            /\ pc' = "cert"
            /\ error' = error
    /\ UNCHANGED <<inputs, images_wip, parsed_charts, custom_chart_values,
                   locals, sorted_images, outputs>>

CertRuleNeverRaises(charts) == FALSE

\* custom_chart_values['cert_manager']['values']['appVersion'] is a KeyError
\* when either key is missing; the except clause logs and re-raises.
CertRuleRaises(charts) ==
    \/ "cert_manager" \notin DOMAIN charts
    \/ "appVersion" \notin DOMAIN charts["cert_manager"].values

\* if <the value>: del <the key>.
CertRuleResult(charts) ==
    IF /\ "cert_manager" \in DOMAIN charts
       /\ "appVersion" \in DOMAIN charts["cert_manager"].values
       /\ Truthy(charts["cert_manager"].values["appVersion"])
    THEN [charts EXCEPT !["cert_manager"].values =
              [p \in DOMAIN @ \ {"appVersion"} |-> @[p]]]
    ELSE charts

CertRule ==
    /\ pc = "cert"
    /\ IF CertRuleRaises(custom_chart_values)
       THEN Raise("KeyError") /\ custom_chart_values' = custom_chart_values
       ELSE /\ custom_chart_values' = CertRuleResult(custom_chart_values)
            /\ pc' = "write_manifest"
            /\ error' = error
    /\ UNCHANGED <<inputs, images_wip, parsed_charts, locals, sorted_images,
                   updated_images, outputs>>

\* updated_additional_images: every additional image under the prefix.
UpdatedAdditionalImages ==
    [i \in DOMAIN additional_images |->
        [name |-> additional_images[i].name,
         image |-> Prefix \o Str(additional_images[i].image)]]

\* replication-result.json: the merge of the charts and the additional images.
WriteManifest ==
    /\ pc = "write_manifest"
    /\ replication_result' =
           <<[charts |-> custom_chart_values,
              additional_images |-> UpdatedAdditionalImages]>>
    /\ pc' = "write_images"
    /\ UNCHANGED <<error, inputs, images_wip, parsed_charts,
                   custom_chart_values, locals, sorted_images, updated_images,
                   updated_images_json>>

\* updated_images.json: the image-mapping list.
WriteImages ==
    /\ pc = "write_images"
    /\ updated_images_json' = <<updated_images>>
    /\ pc' = "done"
    /\ UNCHANGED <<error, inputs, images_wip, parsed_charts,
                   custom_chart_values, locals, sorted_images, updated_images,
                   replication_result>>

Next ==
    \/ LoadImages
    \/ SyncRepos
    \/ FetchWorkload(PipelineCharts)
    \/ FetchFails
    \/ StartWorkload
    \/ WalkImage(PipelineDescriptors)
    \/ EndWorkload
    \/ SortImages
    \/ MapAdditional
    \/ MapImagesWip
    \/ CertRule
    \/ WriteManifest
    \/ WriteImages

Spec == Init /\ [][Next]_vars

NextWalk ==
    \/ LoadImages
    \/ SyncRepos
    \/ FetchWorkload(WalkCharts)
    \/ FetchFails
    \/ StartWorkload
    \/ WalkImage(WalkDescriptors)
    \/ EndWorkload
    \/ SortImages
    \/ MapAdditional
    \/ MapImagesWip
    \/ CertRule
    \/ WriteManifest
    \/ WriteImages

SpecWalk == InitWalk /\ [][NextWalk]_vars

(***************************************************************************)
(* process_image on its own: the state before the two mapping loops of a   *)
(* run whose catalog holds one additional image and no workload, for every *)
(* image string of at most MaxStrLen characters.                           *)
(***************************************************************************)
Alphabet == {"a", ".", "/", ":"}

ImageStrings == UNION {[1..n -> Alphabet] : n \in 0..MaxStrLen}

RewriteTables ==
    {[d \in S |-> Mirror] : S \in SUBSET {Default, <<"a", ".">>, <<"a">>}}

InitRewrite ==
    /\ pc = "map_additional"
    /\ \E s \in ImageStrings :
          /\ additional_images = <<[name |-> AdditionalName(1), image |-> s]>>
          /\ images_wip = <<s>>
          /\ sorted_images = <<s>>
    /\ docker_mappings \in RewriteTables
    /\ workloads_data = <<>>
    /\ error = ""
    /\ parsed_charts = EmptyDict
    /\ custom_chart_values = EmptyDict
    /\ image_data = <<>>
    /\ registry = None
    /\ repository = None
    /\ tag = None
    /\ updated_images = <<>>
    /\ replication_result = <<>>
    /\ updated_images_json = <<>>

NextRewrite ==
    \/ MapAdditional
    \/ MapImagesWip

SpecRewrite == InitRewrite /\ [][NextRewrite]_vars

(***************************************************************************)
(* Properties.                                                             *)
(***************************************************************************)
\* The coordinates the chart walk appended to the raw image list.
ChartImages == SubSeq(images_wip, Len(additional_images) + 1, Len(images_wip))

\* The raw image string of a mapping entry: its target without the prefix.
RawOf(entry) == SubSeq(entry.target, Len(Prefix) + 1, Len(entry.target))

\* C1: the list written to updated_images.json has one entry per additional
\* image plus one entry per distinct coordinate of the chart walk.
C1_ListLength ==
    updated_images_json # <<>> =>
        Len(updated_images_json[1]) =
            Len(additional_images) + Cardinality(Range(ChartImages))

\* C2: in the written list the additional images come first, in declaration
\* order; every later entry is a chart-derived image, and the later entries
\* ascend lexicographically by raw image string.
C2_ListOrder ==
    updated_images_json # <<>> =>
        LET list == updated_images_json[1]
            n == Len(additional_images)
        IN /\ Len(list) >= n
           /\ \A i \in 1..n :
                 RawOf(list[i]) = Str(additional_images[i].image)
           /\ Len(list) - n <= Len(ChartImages)
           /\ \A i \in (n + 1)..Len(list) :
                 RawOf(list[i]) \in {Str(c) : c \in Range(ChartImages)}
           /\ \A i \in (n + 1)..Len(list) : \A j \in (i + 1)..Len(list) :
                 StrLeq(RawOf(list[i]), RawOf(list[j]))

LastIndexOf(s, c) ==
    IF Contains(s, c)
    THEN CHOOSE j \in 1..Len(s) : s[j] = c /\ \A k \in (j + 1)..Len(s) : s[k] # c
    ELSE 0

\* The rewrite as specified: image and tag split on the last ':', the mirror
\* looked up for the first '/'-separated segment when that segment has a '.',
\* the default mirror when it has none.
SpecifiedRewrite(raw, table) ==
    LET k == LastIndexOf(raw, ":")
        image == IF k = 0 THEN raw ELSE SubSeq(raw, 1, k - 1)
        itag == IF k = 0 THEN Latest ELSE SubSeq(raw, k + 1, Len(raw))
        segments == Split(image, "/")
        first == segments[1]
    IN IF Contains(first, ".")
       THEN IF first \in DOMAIN table
            THEN table[first] \o <<"/">> \o Join(Tail(segments), "/")
                     \o <<":">> \o itag
            ELSE raw
       ELSE IF Default \in DOMAIN table
            THEN table[Default] \o <<"/">> \o image \o <<":">> \o itag
            ELSE raw

\* C3: the source of every mapping entry is the specified rewrite of its raw
\* image string under the mirror table.
C3_RewriteAsSpecified ==
    \A i \in DOMAIN updated_images :
        updated_images[i].src =
            SpecifiedRewrite(RawOf(updated_images[i]), docker_mappings)

\* A step of WalkImage: one image descriptor walked, or the walk raising.
WalkStep == pc = "images" /\ pc' # "workloads"

Roles == {"registry", "repository", "tag", "remove"}

HasUnknownRole(d) == \E i \in DOMAIN d : d[i].k \notin Roles

RegistryResolved(chart, d) ==
    \E i \in DOMAIN d : d[i].k = "registry" /\ Truthy(ParseValue(chart, d[i].v))

C5_NoAppVersion ==
    (replication_result # <<>>
        /\ "cert_manager" \in DOMAIN replication_result[1].charts) =>
        "appVersion" \notin
            DOMAIN replication_result[1].charts["cert_manager"].values

CertKeyAbsent ==
    \/ "cert_manager" \notin DOMAIN custom_chart_values
    \/ "appVersion" \notin DOMAIN custom_chart_values["cert_manager"].values

\* C6: at the cert-management rule, a missing workload or a missing
\* appVersion key ends the run with the KeyError and no file written, and
\* nothing runs after a failure; with the key present the rule raises
\* nothing and the two steps that follow write both files.
C6_CertRuleOutcome ==
    [][/\ pc = "cert" =>
             IF CertKeyAbsent
             THEN /\ pc' = "failed"
                  /\ error' = "KeyError"
                  /\ replication_result' = <<>>
                  /\ updated_images_json' = <<>>
             ELSE pc' = "write_manifest" /\ error' = ""
       /\ pc = "write_manifest" =>
             pc' = "write_images" /\ replication_result' # <<>>
       /\ pc = "write_images" =>
             /\ pc' = "done"
             /\ replication_result' # <<>>
             /\ updated_images_json' # <<>>
       /\ pc # "failed"]_vars

\* C6 witness: the rule raised for a cert_manager workload whose override
\* tree has no appVersion key, and no file was written.
C6_Witness ==
    /\ pc = "failed"
    /\ error = "KeyError"
    /\ "cert_manager" \in DOMAIN custom_chart_values
    /\ NoFiles

C8_WritesLast ==
    /\ ~NoFiles =>
          /\ DOMAIN parsed_charts = Keys
          /\ DOMAIN custom_chart_values = Keys
          /\ pc \in {"write_images", "done"}
          /\ error = ""
    /\ error # "" => (pc = "failed" /\ NoFiles)

\* C8 witness: the fetch of a later workload failed after an earlier one
\* returned, and no file was written.
C8_Witness ==
    /\ pc = "failed"
    /\ error = "CollaboratorError"
    /\ DOMAIN parsed_charts # {}
    /\ NoFiles

RepositoryUnresolved(chart, d) ==
    \A i \in DOMAIN d :
        d[i].k = "repository" =>
            (d[i].v.name = None /\ ParseValue(chart, d[i].v) = None)

\* C9: the walk of a descriptor whose repository does not resolve appends
\* nothing to the raw image list and does not end the run, and the overrides
\* of its resolved registry and tag bindings are recorded.
C9_NoCoordinateWithoutRepository ==
    [][(WalkStep /\ RepositoryUnresolved(parsed_charts[workload], image_data')) =>
        /\ images_wip' = images_wip
        /\ error' = ""
        /\ \A i \in DOMAIN image_data' :
              LET b == image_data'[i]
                  r == ParseValue(parsed_charts[workload], b.v)
              IN (b.k \in {"registry", "tag"} /\ r # None) =>
                    b.v.path \in DOMAIN custom_chart_values'[workload].values]_vars

\* C10: a registry, repository or tag reference that does not resolve
\* leaves the override tree as it was at the binding's path, and the walk
\* does not end the run.
C10_UnresolvedRecordsNothing ==
    [][WalkStep =>
        /\ error' = ""
        /\ \A i \in DOMAIN image_data' :
              LET b == image_data'[i]
                  old == custom_chart_values[workload].values
                  new == custom_chart_values'[workload].values
              IN (/\ b.k \in {"registry", "repository", "tag"}
                  /\ b.v.name = None
                  /\ ParseValue(parsed_charts[workload], b.v) = None) =>
                    /\ b.v.path \in DOMAIN new <=> b.v.path \in DOMAIN old
                    /\ b.v.path \in DOMAIN old => new[b.v.path] = old[b.v.path]]_vars

====
